---- MODULE Spec2Model ----
(***************************************************************************)
(* Model of halotools/mock_observables/two_point_clustering/               *)
(* clustering_helpers.py: the estimator-name validator, the second-sample  *)
(* normalizer and the sample-size limiter.  A caller that owns one or two   *)
(* arrays validates names, normalizes its arrays, passes what the          *)
(* normalizer returned to the limiter, and may pass what the limiter       *)
(* returned to the limiter again; it does so any number of times.  Arrays  *)
(* live in a heap of objects so that an alias (same object) is             *)
(* distinguishable from a copy (equal content).                            *)
(***************************************************************************)
EXTENDS Integers, Sequences, FiniteSets, TLC

\* ---------------------------------------------------------------- bounds
MaxRows == 3        \* largest row count of a caller-supplied array
MaxBase == 1        \* caller arrays are filled from 0..MaxBase (or NaN)
MaxSize == 2        \* max_sample_size is drawn from 1..MaxSize
MaxShuffles == 2    \* cap on the number of np.random.shuffle calls modelled

\* ------------------------------------------------------------- constants
None == 0           \* Python None; no object has this id
NaN == -1           \* floating-point not-a-number (unequal to itself)
PointDim == 3       \* point dimension required by the shape enforcement

VARIABLES
    heap,           \* object id -> ndarray [shape, data]
    tpcf_estimator_dd_dr_rr_requirements,   \* module-level table
    rng,            \* number of shuffles drawn from the process-wide generator
    call            \* the last call: [op, args, res, ...]

vars == <<heap, tpcf_estimator_dd_dr_rr_requirements, rng, call>>

\* ----------------------------------------------------------------- arrays
Range(s) == {s[i] : i \in DOMAIN s}

\* a 2-D array of shape (n, d): row i holds i - 1 in every coordinate but the
\* last, which holds base + i - 1 (NaN when base is NaN); its rows are
\* pairwise distinct, and two such arrays of different base agree in every
\* coordinate but the last
MkSample(n, d, base) ==
    [shape |-> <<n, d>>,
     data  |-> [i \in 1..n |-> [j \in 1..d |->
                   IF j < d THEN i - 1
                   ELSE IF base = NaN THEN NaN ELSE base + i - 1]]]

\* a 1-D array of shape (n,)
Mk1D(n) == [shape |-> <<n>>, data |-> [i \in 1..n |-> i - 1]]

Bases == (0..MaxBase) \cup {NaN}

Samples == {MkSample(n, PointDim, b) : n \in 0..MaxRows, b \in Bases}

Malformed == {MkSample(n, PointDim - 1, 0) : n \in 1..MaxRows}
             \cup {Mk1D(n) : n \in 1..MaxRows}

\* len(a): the first axis
len(a) == a.shape[1]

\* IEEE equality of two coordinates, as == on floating-point arrays
FloatEq(x, y) == x # NaN /\ y # NaN /\ x = y

\* np.any(a == b)
AllEqual_any(a, b) ==
    \E i \in 1..a.shape[1] : \E j \in 1..a.shape[2] :
        FloatEq(a.data[i][j], b.data[i][j])

\* np.all(a == b) for two arrays of the same 2-D shape
AllEqual(a, b) ==
    \A i \in 1..a.shape[1] : \A j \in 1..a.shape[2] :
        FloatEq(a.data[i][j], b.data[i][j])

\* ------------------------------------------------------ estimator table
EstimatorOrder ==
    <<"Natural", "Davis-Peebles", "Hewett", "Hamilton", "Landy-Szalay">>

EstimatorTable ==
    [k \in Range(EstimatorOrder) |->
        CASE k = "Natural"       -> <<TRUE, FALSE, TRUE>>
          [] k = "Davis-Peebles" -> <<TRUE, TRUE, FALSE>>
          [] k = "Hewett"        -> <<TRUE, TRUE, TRUE>>
          [] k = "Hamilton"      -> <<TRUE, TRUE, TRUE>>
          [] k = "Landy-Szalay"  -> <<TRUE, TRUE, TRUE>>]

\* list(table.keys()), in insertion order
Keys(table) ==
    LET In(k) == k \in DOMAIN table IN SelectSeq(EstimatorOrder, In)

\* the names a caller may pass
EstimatorNames ==
    Range(EstimatorOrder) \cup {"Foo", "natural", "Landy-Szalay "}

NotAvailableMsg ==
    "Your estimator {0} is not in the list of available estimators: {1}"

verify_tpcf_estimator_nolist(estimator, table) ==
    LET available_estimators == Keys(table) IN
    IF estimator \in Range(available_estimators)
    THEN [raised |-> "", ret |-> estimator]
    ELSE [raised |-> "ValueError",
          msg |-> [format |-> NotAvailableMsg, arg0 |-> estimator,
                   arg1 |-> <<>>]]

verify_tpcf_estimator(estimator, table) ==
    LET available_estimators == Keys(table) IN
    IF estimator \in Range(available_estimators)
    THEN [raised |-> "", ret |-> estimator]
    ELSE [raised |-> "ValueError",
          msg |-> [format |-> NotAvailableMsg, arg0 |-> estimator,
                   arg1 |-> available_estimators]]

\* ------------------------------------------------ second-sample normalizer
\* the collaborator: the sample itself when it is an (N, PointDim) table,
\* a ShapeError otherwise
ShapeOK(a) == Len(a.shape) = 2 /\ a.shape[2] = PointDim

enforce_sample_has_correct_shape(h, sample) ==
    IF ShapeOK(h[sample])
    THEN [raised |-> "", ret |-> sample]
    ELSE [raised |-> "ShapeError"]

SameSampleMsg ==
    "sample1 and sample2 are exactly the same, only the auto-correlation will be returned."

\* sample2 is None: alias sample1
SampleAbsent_cross_off(sample1, do_cross) ==
    [raised |-> "", sample2 |-> sample1, sample1_is_sample2 |-> TRUE,
     do_cross |-> FALSE, warnings |-> <<>>, compared |-> FALSE]

SampleAbsent(sample1, do_cross) ==
    [raised |-> "", sample2 |-> sample1, sample1_is_sample2 |-> TRUE,
     do_cross |-> do_cross, warnings |-> <<>>, compared |-> FALSE]

\* the collaborator raised: nothing catches it
Propagate_swallowed(e, sample2, do_cross) ==
    [raised |-> "", sample2 |-> sample2, sample1_is_sample2 |-> FALSE,
     do_cross |-> do_cross, warnings |-> <<>>, compared |-> FALSE]

Propagate(e, sample2, do_cross) ==
    [raised |-> e.raised, warnings |-> <<>>, compared |-> FALSE]

\* np.all(sample1==sample2) holds
SamplesEqual_keep_cross(sample2, do_cross) ==
    [raised |-> "", sample2 |-> sample2, sample1_is_sample2 |-> TRUE,
     do_cross |-> do_cross, warnings |-> <<SameSampleMsg>>,
     compared |-> TRUE]

SamplesEqual(sample2, do_cross) ==
    [raised |-> "", sample2 |-> sample2, sample1_is_sample2 |-> TRUE,
     do_cross |-> FALSE, warnings |-> <<SameSampleMsg>>, compared |-> TRUE]

\* the shapes differ (compared = FALSE) or some coordinate does
SamplesDiffer(sample2, do_cross, compared) ==
    [raised |-> "", sample2 |-> sample2, sample1_is_sample2 |-> FALSE,
     do_cross |-> do_cross, warnings |-> <<>>, compared |-> compared]

process_optional_input_sample2(h, sample1, sample2, do_cross) ==
    IF sample2 = None
    THEN SampleAbsent(sample1, do_cross)
    ELSE
      LET e == enforce_sample_has_correct_shape(h, sample2) IN
      IF e.raised # ""
      THEN Propagate(e, sample2, do_cross)
      ELSE
        IF h[sample1].shape # h[e.ret].shape
        THEN SamplesDiffer(e.ret, do_cross, FALSE)
        ELSE
          IF AllEqual(h[sample1], h[e.ret])
          THEN SamplesEqual(e.ret, do_cross)
          ELSE SamplesDiffer(e.ret, do_cross, TRUE)

\* --------------------------------------------------------- size limiter
\* the outcomes of np.random.shuffle(np.arange(0, n))
Shuffles(n) == {[i \in 1..n |-> p[i] - 1] : p \in Permutations(1..n)}

\* len(sample) >= max_sample_size
Exceeds_or_equal(a, max_sample_size) == len(a) >= max_sample_size

\* len(sample) > max_sample_size
Exceeds(a, max_sample_size) == len(a) > max_sample_size

\* Permutations that differ only in the order of the indices behind position
\* k give the same call when k indices are kept, so one of them (those
\* indices ascending) stands for all.  Tabulated once for every row count.
ShuffleTable ==
    [n \in 0..MaxRows |-> [k \in 1..MaxSize |->
        {p \in Shuffles(n) : \A i, j \in (k + 1)..n : i < j => p[i] < p[j]}]]

\* the permutations the generator can hand to a call for one sample: those of
\* its row indices when the sample is shuffled, none (an unused placeholder)
\* when the code does not reach the shuffle
ShuffleOutcomes(a, max_sample_size) ==
    IF Exceeds(a, max_sample_size)
    THEN ShuffleTable[len(a)][max_sample_size]
    ELSE {<<>>}

\* inds[0:k] for k >= 0
Slice(inds, k) == SubSeq(inds, 1, IF k < Len(inds) THEN k ELSE Len(inds))

\* the row at the first index, once per index
FancyIndex_first_row(a, inds) ==
    [shape |-> <<Len(inds), a.shape[2]>>,
     data  |-> [k \in 1..Len(inds) |-> a.data[inds[1] + 1]]]

\* a[inds]: a new array holding the rows of a at the (0-based) indices
FancyIndex(a, inds) ==
    [shape |-> <<Len(inds), a.shape[2]>>,
     data  |-> [k \in 1..Len(inds) |-> a.data[inds[k] + 1]]]

\* objects 1 and 2 are the arrays of the caller (2 only when it has a second)
CallerObjects == {1, 2}

\* the object id a new array gets: the first one free behind the caller's
NewId(h) ==
    CHOOSE i \in 3..(Cardinality(DOMAIN h) + 3) :
        /\ i \notin DOMAIN h
        /\ \A j \in 3..(i - 1) : j \in DOMAIN h

DownsampleMsg(name) ==
    IF name = "sample1"
    THEN "sample1 exceeds max_sample_size downsampling sample1..."
    ELSE "sample2 exceeds max_sample_size downsampling sample2..."

\* the subset written over the rows of the sample itself
DownsampleOne_in_place(h, sample, max_sample_size, perm, name) ==
    IF Exceeds(h[sample], max_sample_size)
    THEN LET inds == Slice(perm, max_sample_size)
         IN [heap |-> [h EXCEPT ![sample] = FancyIndex(h[sample], inds)],
             sample |-> sample, warnings |-> <<DownsampleMsg(name)>>,
             shuffles |-> 1]
    ELSE [heap |-> h, sample |-> sample, warnings |-> <<>>, shuffles |-> 0]

\* one  if len(sample) > max_sample_size: ... else: pass  block
DownsampleOne(h, sample, max_sample_size, perm, name) ==
    IF Exceeds(h[sample], max_sample_size)
    THEN LET inds == Slice(perm, max_sample_size)
             id   == NewId(h)
         IN [heap |-> (id :> FancyIndex(h[sample], inds)) @@ h,
             sample |-> id, warnings |-> <<DownsampleMsg(name)>>,
             shuffles |-> 1]
    ELSE [heap |-> h, sample |-> sample, warnings |-> <<>>, shuffles |-> 0]

downsample_inputs_exceeding_max_sample_size(h, sample1, sample2, sample1_is_sample2, max_sample_size, perm1, perm2) ==
    IF sample1_is_sample2 = TRUE
    THEN LET r1 == DownsampleOne(h, sample1, max_sample_size, perm1, "sample1")
         IN [heap |-> r1.heap, sample1 |-> r1.sample, sample2 |-> sample2,
             warnings |-> r1.warnings, shuffles |-> r1.shuffles]
    ELSE LET r1 == DownsampleOne(h, sample1, max_sample_size, perm1, "sample1")
             r2 == DownsampleOne(r1.heap, sample2, max_sample_size, perm2,
                                 "sample2")
         IN [heap |-> r2.heap, sample1 |-> r1.sample, sample2 |-> r2.sample,
             warnings |-> r1.warnings \o r2.warnings,
             shuffles |-> r1.shuffles + r2.shuffles]

\* ------------------------------------------------------------ the caller
\* the heap once objects nobody refers to are gone
Collect(h, live) == [id \in (DOMAIN h) \cap (CallerObjects \cup live) |-> h[id]]

\* what the caller passes to the normalizer: its validated first array and
\* its second array, or None when it has no second array
ProcessArgs == IF 2 \in DOMAIN heap THEN {<<1, 2>>} ELSE {<<1, None>>}

\* what the caller passes to the limiter: after a normalizer call, its first
\* array and the sample2 that call returned, with any flag and threshold;
\* after a limiter call, the pair that call returned, with its flag and
\* threshold
DownsampleArgs ==
    (IF call.op = "process" /\ call.res.raised = ""
     THEN {<<call.sample1, call.res.sample2, f, m>> :
              f \in BOOLEAN, m \in 1..MaxSize}
     ELSE {})
    \cup (IF call.op = "downsample"
          THEN {<<call.res.sample1, call.res.sample2,
                  call.sample1_is_sample2, call.max_sample_size>>}
          ELSE {})

Init ==
    /\ \E a \in Samples :
          \/ heap = (1 :> a)
          \/ \E b \in Samples \cup Malformed : heap = (1 :> a) @@ (2 :> b)
    /\ tpcf_estimator_dd_dr_rr_requirements = EstimatorTable
    /\ rng = 0
    /\ call = [op |-> "none"]

Verify ==
    \E estimator \in EstimatorNames :
        /\ call' = [op |-> "verify", estimator |-> estimator,
                    res |-> verify_tpcf_estimator(estimator,
                                tpcf_estimator_dd_dr_rr_requirements)]
        /\ heap' = Collect(heap, {})
        /\ UNCHANGED <<tpcf_estimator_dd_dr_rr_requirements, rng>>

Process ==
    \E args \in ProcessArgs, do_cross \in BOOLEAN :
        LET sample1 == args[1]
            sample2 == args[2]
            res == process_optional_input_sample2(heap, sample1, sample2,
                                                  do_cross)
        IN /\ call' = [op |-> "process", sample1 |-> sample1,
                       sample2 |-> sample2, do_cross |-> do_cross,
                       res |-> res]
           /\ heap' = Collect(heap, {sample1, sample2})
           /\ UNCHANGED <<tpcf_estimator_dd_dr_rr_requirements, rng>>

Downsample ==
    \E args \in DownsampleArgs :
      \E perm1 \in ShuffleOutcomes(heap[args[1]], args[4]),
         perm2 \in ShuffleOutcomes(heap[args[2]], args[4]) :
        LET sample1 == args[1]
            sample2 == args[2]
            sample1_is_sample2 == args[3]
            max_sample_size == args[4]
            res == downsample_inputs_exceeding_max_sample_size(
                       heap, sample1, sample2, sample1_is_sample2,
                       max_sample_size, perm1, perm2)
        IN /\ rng + res.shuffles <= MaxShuffles
           /\ call' = [op |-> "downsample", sample1 |-> sample1,
                       sample2 |-> sample2,
                       sample1_is_sample2 |-> sample1_is_sample2,
                       max_sample_size |-> max_sample_size,
                       res |-> [sample1 |-> res.sample1,
                                sample2 |-> res.sample2,
                                warnings |-> res.warnings],
                       rng0 |-> rng,
                       repeat |-> /\ call.op = "downsample"
                                  /\ sample1 = call.res.sample1
                                  /\ sample2 = call.res.sample2
                                  /\ sample1_is_sample2 = call.sample1_is_sample2
                                  /\ max_sample_size = call.max_sample_size]
           /\ heap' = Collect(res.heap,
                              {sample1, sample2, res.sample1, res.sample2})
           /\ rng' = rng + res.shuffles
           /\ UNCHANGED tpcf_estimator_dd_dr_rr_requirements

Next == Verify \/ Process \/ Downsample

Spec == Init /\ [][Next]_vars

TypeOK ==
    /\ rng \in 0..MaxShuffles
    /\ 1 \in DOMAIN heap
    /\ call.op \in {"none", "verify", "process", "downsample"}

\* ------------------------------------------------------------ properties
FiveNames == {"Natural", "Davis-Peebles", "Hewett", "Hamilton", "Landy-Szalay"}

Sample1Warning == "sample1 exceeds max_sample_size downsampling sample1..."
Sample2Warning == "sample2 exceeds max_sample_size downsampling sample2..."
AutoOnlyWarning ==
    "sample1 and sample2 are exactly the same, only the auto-correlation will be returned."

\* how many of the warnings of the last call are the message w
Count(ws, w) == Cardinality({i \in DOMAIN ws : ws[i] = w})

\* the limiter looks at sample1 always, at sample2 only when the flag is false
Processed(k) == k = 1 \/ ~call.sample1_is_sample2
ArgOf(k) == IF k = 1 THEN call.sample1 ELSE call.sample2
RetOf(k) == IF k = 1 THEN call.res.sample1 ELSE call.res.sample2
WarningOf(k) == IF k = 1 THEN Sample1Warning ELSE Sample2Warning

\* r holds exactly k rows, each the row of a at an index of its own
DistinctRowsOf(r, a, k) ==
    /\ r.shape = <<k, a.shape[2]>>
    /\ DOMAIN r.data = 1..k
    /\ \E f \in [1..k -> 1..len(a)] :
          /\ \A i, j \in 1..k : f[i] = f[j] => i = j
          /\ \A i \in 1..k : r.data[i] = a.data[f[i]]

\* the provided sample2 of the last normalizer call passes the shape check
Provided == call.op = "process" /\ call.sample2 # None
ProvidedOK == Provided /\ ShapeOK(heap[call.sample2])

SameShape == heap[call.sample1].shape = heap[call.sample2].shape
EveryCoordinateEqual ==
    \A i \in 1..heap[call.sample1].shape[1] :
       \A j \in 1..heap[call.sample1].shape[2] :
          FloatEq(heap[call.sample1].data[i][j], heap[call.sample2].data[i][j])

\* C1: verify_tpcf_estimator returns the name unchanged exactly when it is one
\* of the five estimator names; for any other name it returns nothing and
\* raises a ValueError whose message carries the name and all five valid names.
C1_VerifyContract ==
    call.op = "verify" =>
        IF call.estimator \in FiveNames
        THEN /\ call.res.raised = ""
             /\ call.res.ret = call.estimator
        ELSE /\ call.res.raised = "ValueError"
             /\ "ret" \notin DOMAIN call.res
             /\ call.res.msg.arg0 = call.estimator
             /\ FiveNames \subseteq Range(call.res.msg.arg1)

C1_Witness ==
    /\ call.op = "verify"
    /\ call.estimator = "Foo"
    /\ call.res.raised = "ValueError"

\* C2: when the limiter is called with sample1_is_sample2 true (sample2 being
\* sample1 itself) and sample1 has more than max_sample_size rows, the
\* returned sample2 has the same max_sample_size rows as the returned sample1.
C2_AliasingPreserved ==
    (/\ call.op = "downsample"
     /\ call.sample1_is_sample2
     /\ call.sample2 = call.sample1
     /\ len(heap[call.sample1]) > call.max_sample_size)
    => /\ len(heap[call.res.sample2]) = call.max_sample_size
       /\ heap[call.res.sample2].data = heap[call.res.sample1].data

\* C3: every sample the limiter processes that has more rows than
\* max_sample_size comes back with exactly max_sample_size rows, each the row
\* of the original at a distinct index, and with exactly one warning naming it.
C3_DownsampledSubset ==
    call.op = "downsample" =>
        \A k \in {1, 2} :
            (Processed(k) /\ len(heap[ArgOf(k)]) > call.max_sample_size)
            => /\ DistinctRowsOf(heap[RetOf(k)], heap[ArgOf(k)],
                                 call.max_sample_size)
               /\ Count(call.res.warnings, WarningOf(k)) = 1

C3_Witness ==
    /\ call.op = "downsample"
    /\ ~call.sample1_is_sample2
    /\ call.max_sample_size = 2
    /\ len(heap[call.sample1]) = 3
    /\ len(heap[call.sample2]) = 3
    /\ call.res.warnings = <<Sample1Warning, Sample2Warning>>
    /\ heap[call.res.sample1].data[1] = heap[call.sample1].data[3]

\* C4: with sample2 absent the normalizer returns sample1 itself as sample2,
\* the flag true and do_cross as passed in, and emits no warning.
C4_AbsentAliases ==
    (call.op = "process" /\ call.sample2 = None)
    => /\ call.res.raised = ""
       /\ call.res.sample2 = call.sample1
       /\ call.res.sample1_is_sample2 = TRUE
       /\ call.res.do_cross = call.do_cross
       /\ call.res.warnings = <<>>

C4_Witness ==
    /\ call.op = "process"
    /\ call.sample2 = None
    /\ call.do_cross
    /\ call.res.sample2 = 1
    /\ len(heap[1]) = 2

\* C5: with a provided sample2 that passes the shape check, has the shape of
\* sample1 and equals it in every coordinate, the normalizer returns the flag
\* true and do_cross false, and emits exactly the auto-correlation warning.
C5_EqualContent ==
    (ProvidedOK /\ SameShape /\ EveryCoordinateEqual)
    => /\ call.res.raised = ""
       /\ call.res.sample1_is_sample2 = TRUE
       /\ call.res.do_cross = FALSE
       /\ call.res.warnings = <<AutoOnlyWarning>>

C5_Witness ==
    /\ ProvidedOK /\ SameShape /\ EveryCoordinateEqual
    /\ call.sample2 # call.sample1
    /\ len(heap[call.sample1]) = 2
    /\ call.do_cross

\* C6: with a provided sample2 that passes the shape check and differs from
\* sample1 in shape or, the shapes being equal, in some coordinate, the
\* normalizer returns the flag false and do_cross as passed in, and emits no
\* warning.
C6_DifferentContent ==
    (ProvidedOK /\ (~SameShape \/ ~EveryCoordinateEqual))
    => /\ call.res.raised = ""
       /\ call.res.sample1_is_sample2 = FALSE
       /\ call.res.do_cross = call.do_cross
       /\ call.res.warnings = <<>>

C6_Witness ==
    /\ ProvidedOK /\ SameShape /\ ~EveryCoordinateEqual
    /\ len(heap[call.sample1]) = 2
    /\ heap[call.sample1].data[1][1] = heap[call.sample2].data[1][1]
    /\ call.do_cross
    /\ call.res.do_cross

\* C7: every sample the limiter processes that has at most max_sample_size
\* rows comes back as the very sample passed in, with no warning naming it,
\* whatever the row count of the other sample.
C7_SmallUnchanged ==
    call.op = "downsample" =>
        \A k \in {1, 2} :
            (Processed(k) /\ len(heap[ArgOf(k)]) <= call.max_sample_size)
            => /\ RetOf(k) = ArgOf(k)
               /\ Count(call.res.warnings, WarningOf(k)) = 0

C7_Witness ==
    /\ call.op = "downsample"
    /\ ~call.sample1_is_sample2
    /\ len(heap[call.sample1]) = call.max_sample_size
    /\ len(heap[call.sample2]) > call.max_sample_size
    /\ call.res.sample1 = call.sample1
    /\ call.res.warnings = <<Sample2Warning>>

\* C8: a second limiter call on the samples a first call returned, with the
\* same flag and max_sample_size, returns them unchanged, emits no warning
\* and leaves the random generator where it was.
C8_Idempotent ==
    (call.op = "downsample" /\ call.repeat)
    => /\ call.res.sample1 = call.sample1
       /\ call.res.sample2 = call.sample2
       /\ call.res.warnings = <<>>
       /\ rng = call.rng0

C8_Witness ==
    /\ call.op = "downsample"
    /\ call.repeat
    /\ ~call.sample1_is_sample2
    /\ call.sample1 \notin CallerObjects
    /\ call.sample2 \notin CallerObjects
    /\ len(heap[call.sample1]) = call.max_sample_size
    /\ len(heap[call.sample2]) = call.max_sample_size

\* C9: a provided sample2 that fails the shape enforcement makes the
\* normalizer fail with that ShapeError: no result, no warning, no equality
\* comparison; and the normalizer fails in no other case.
C9_ShapeErrorPropagates ==
    call.op = "process" =>
        /\ (call.sample2 # None /\ ~ShapeOK(heap[call.sample2]))
           => /\ call.res.raised = "ShapeError"
              /\ DOMAIN call.res \cap
                   {"sample2", "sample1_is_sample2", "do_cross"} = {}
              /\ call.res.warnings = <<>>
              /\ ~call.res.compared
        /\ call.res.raised # ""
           => (call.sample2 # None /\ ~ShapeOK(heap[call.sample2]))

C9_Witness ==
    /\ call.op = "process"
    /\ call.sample2 = 2
    /\ heap[2].shape = <<len(heap[1]), PointDim - 1>>
    /\ call.res.raised = "ShapeError"

\* C10: no call edits an existing array or the estimator table: every array
\* that exists before and after a step holds the same rows, the arrays of the
\* caller stay, a downsampled result is a new array, and the random
\* generator moves only in a limiter call that downsamples.
C10_Frame ==
    [][/\ \A id \in DOMAIN heap :
            id \in DOMAIN heap' => heap'[id] = heap[id]
       /\ CallerObjects \cap DOMAIN heap \subseteq DOMAIN heap'
       /\ tpcf_estimator_dd_dr_rr_requirements'
            = tpcf_estimator_dd_dr_rr_requirements
       /\ tpcf_estimator_dd_dr_rr_requirements' = EstimatorTable
       /\ rng' # rng => (call'.op = "downsample" /\ call'.res.warnings # <<>>)
       /\ call'.op = "downsample" =>
            /\ call'.res.sample1 # call'.sample1
                 => call'.res.sample1 \notin DOMAIN heap
            /\ call'.res.sample2 # call'.sample2
                 => call'.res.sample2 \notin DOMAIN heap
      ]_vars

C10_Witness ==
    /\ call.op = "downsample"
    /\ call.sample1 = 1
    /\ call.sample2 = 2
    /\ call.res.sample1 \notin CallerObjects
    /\ call.res.sample2 \notin CallerObjects
    /\ len(heap[1]) = 3
    /\ len(heap[2]) = 3
    /\ len(heap[call.res.sample1]) = 1
    /\ rng = 2
====
